---- MODULE Spec2Model ----
(***************************************************************************)
(* Model of the Either library (src/either/either.py): the frozen          *)
(* dataclass Either with its factories Ok / Err, the always-raising        *)
(* __new__, match, the generated __eq__ / __setattr__ / __delattr__, and   *)
(* the adapters as_either / as_async_either.                               *)
(*                                                                         *)
(* A Python value is a record [t, v, s]: t the type name, v the numeric    *)
(* value (or the object identity of an exception, or a heap index for an   *)
(* Either), s the text of a str or the message of an exception.            *)
(***************************************************************************)
EXTENDS Integers, Sequences, FiniteSets, TLC

VARIABLES heap, born, last, task

vars == <<heap, born, last, task>>

\* ------------------------------------------------------------------ bounds
MaxHeap == 2
MaxSuspend == 2

\* ------------------------------------------------------------------ values
None == [t |-> "NoneType", v |-> 0, s |-> ""]
PyInt(n) == [t |-> "int", v |-> n, s |-> ""]
PyFloat(n) == [t |-> "float", v |-> n, s |-> ""]
PyStr(x) == [t |-> "str", v |-> 0, s |-> x]
PyBool(b) == [t |-> "bool", v |-> IF b THEN 1 ELSE 0, s |-> ""]
Ref(i) == [t |-> "Either", v |-> i, s |-> ""]

PrivateConstructorError ==
    [t |-> "PrivateConstructorError", v |-> 0,
     s |-> "Use Either.Ok or Either.Err to create an instance."]
UnreachableError ==
    [t |-> "UnreachableError", v |-> 0, s |-> "Either is in an invalid state."]
FrozenInstanceError(op, name) ==
    [t |-> "FrozenInstanceError", v |-> 0,
     s |-> IF op = "setattr" THEN "cannot assign to field" ELSE "cannot delete field"]
ZeroDivisionError == [t |-> "ZeroDivisionError", v |-> 0, s |-> "division by zero"]
CancelledError == [t |-> "CancelledError", v |-> 0, s |-> ""]
KeyboardInterrupt == [t |-> "KeyboardInterrupt", v |-> 0, s |-> ""]
Failed == [t |-> "Failed", v |-> 0, s |-> "Should not have been called."]

\* The classes derived from Exception; CancelledError, KeyboardInterrupt and
\* pytest's Failed derive from BaseException only.
EitherErrorTypes == {"PrivateConstructorError", "UnreachableError"}
ExceptionTypes ==
    EitherErrorTypes \cup {"ZeroDivisionError", "FrozenInstanceError"}
IsException(e) == e.t \in ExceptionTypes

NumericTypes == {"int", "float", "bool"}

\* Python's ==  on the payload values of the model: numbers compare by value
\* across int / float / bool, everything else by type and content (an
\* exception by identity).
PyEq(a, b) ==
    IF a.t \in NumericTypes /\ b.t \in NumericTypes
    THEN a.v = b.v
    ELSE a = b

\* The payloads a caller passes to a factory.
Payloads == {None, PyInt(1), PyFloat(1), PyStr("10")}

\* --------------------------------------------------------------- outcomes
\* What a call does: return a value or raise one; new holds the instance the
\* call allocated (object.__new__), if any.
Return(val) == [kind |-> "return", val |-> val, new |-> <<>>]
ReturnNew(inst) == [kind |-> "return", val |-> None, new |-> <<inst>>]
Raise(exc) == [kind |-> "raise", val |-> exc, new |-> <<>>]

\* ----------------------------------------------------------------- Either
EitherNewLenient(args) ==
    IF args.kw /\ args.is_ok = (args.ok # None) /\ (args.ok = None) # (args.err = None)
    THEN ReturnNew([ok |-> args.ok, err |-> args.err, is_ok |-> args.is_ok])
    ELSE Raise(PrivateConstructorError)

\* Either.__new__(cls, *args, **kwargs)
EitherNew(args) == Raise(PrivateConstructorError)

\* Either.Ok(ok)
Ok(ok) == [err |-> None, ok |-> ok, is_ok |-> TRUE]

\* Either.Err(err)
Err(err) == [err |-> err, ok |-> None, is_ok |-> FALSE]

\* A handler passed to match: the identity, or the tests' fail.
Handlers == {"id", "fail"}
Apply(fn, x) == IF fn = "id" THEN Return(x) ELSE Raise(Failed)

\* Either.match(self, ok_fn, err_fn): the outcome, the handlers it called and
\* the instance as the call leaves it.
Match(self, ok_fn, err_fn) ==
    IF self.is_ok = TRUE /\ self.err = None /\ self.ok # None
    THEN [out |-> Apply(ok_fn, self.ok), called |-> {"ok_fn"}, self |-> self]
    ELSE IF self.is_ok = FALSE /\ self.ok = None /\ self.err # None
    THEN [out |-> Apply(err_fn, self.err), called |-> {"err_fn"}, self |-> self]
    ELSE [out |-> Raise(UnreachableError), called |-> {}, self |-> self]

EqIgnoringFlag(a, b) == PyEq(a.ok, b.ok) /\ PyEq(a.err, b.err)

\* The __eq__ the dataclass decorator generates: the field tuples compared.
EitherEq(a, b) == PyEq(a.ok, b.ok) /\ PyEq(a.err, b.err) /\ a.is_ok = b.is_ok

Fields == {"ok", "err", "is_ok"}

SetField(self, name, val) ==
    IF name = "ok" THEN [self EXCEPT !.ok = val]
    ELSE IF name = "err" THEN [self EXCEPT !.err = val]
    ELSE [self EXCEPT !.is_ok = (val # None)]

SetattrUnfrozen(self, op, name, val) ==
    [out |-> Return(None),
     self |-> SetField(self, name, IF op = "setattr" THEN val ELSE None)]

\* The __setattr__ / __delattr__ that frozen=True generates.
FrozenSetattr(self, op, name, val) ==
    [out |-> Raise(FrozenInstanceError(op, name)), self |-> self]

\* --------------------------------------------------------------- adapters
\* The callables handed to the adapters: the tests' divide, a function that
\* returns its first argument, one that raises it, one that attempts direct
\* construction, and one that matches on an instance holding no payload.
Fns == {"divide", "returns", "raises", "construct", "match_invalid"}

ArgsOf(fn) ==
    IF fn = "divide" THEN {PyInt(4)} \X {PyInt(0), PyInt(2)}
    ELSE IF fn = "returns" THEN {None, PyInt(1)} \X {None}
    ELSE IF fn = "raises" THEN {ZeroDivisionError, KeyboardInterrupt} \X {None}
    ELSE IF fn = "construct" THEN {<<PyInt(10), None>>}
    ELSE {<<None, None>>}

\* fn(*args, **kwargs)
CallFn(fn, args) ==
    IF fn = "divide"
    THEN IF args[2].v = 0 THEN Raise(ZeroDivisionError)
         ELSE Return(PyFloat(args[1].v \div args[2].v))
    ELSE IF fn = "returns" THEN Return(args[1])
    ELSE IF fn = "raises" THEN Raise(args[1])
    ELSE IF fn = "construct"
    THEN LET r == EitherNew([kw |-> TRUE, ok |-> args[1], err |-> args[2],
                             is_ok |-> args[2] = None])
         IN  IF r.kind = "raise" THEN r ELSE Return(None)
    ELSE Match(Ok(None), "id", "id").out

AsEitherStringified(fn, args) ==
    LET r == CallFn(fn, args)
    IN  [out |-> IF r.kind = "return" THEN ReturnNew(Ok(r.val))
                 ELSE IF IsException(r.val) THEN ReturnNew(Err(PyStr(r.val.s)))
                 ELSE Raise(r.val),
         calls |-> 1]

AsEitherReraisingOwn(fn, args) ==
    LET r == CallFn(fn, args)
    IN  [out |-> IF r.kind = "return" THEN ReturnNew(Ok(r.val))
                 ELSE IF IsException(r.val) /\ r.val.t \notin EitherErrorTypes
                 THEN ReturnNew(Err(r.val))
                 ELSE Raise(r.val),
         calls |-> 1]

\* as_either(fn)(*args, **kwargs): inner. fn is called once inside the try;
\* `except Exception` takes the classes derived from Exception and lets the
\* other BaseExceptions through.
as_either_inner(fn, args) ==
    LET r == CallFn(fn, args)
    IN  [out |-> IF r.kind = "return" THEN ReturnNew(Ok(r.val))
                 ELSE IF IsException(r.val) THEN ReturnNew(Err(r.val))
                 ELSE Raise(r.val),
         calls |-> 1]

Pending == [kind |-> "pending", val |-> None, new |-> <<>>]
Coroutine == [t |-> "coroutine", v |-> 0, s |-> ""]

AsyncInnerNoAwait(fn, args, left, cancelled) == ReturnNew(Ok(Coroutine))

AsyncInnerCatchAll(fn, args, left, cancelled) ==
    IF cancelled THEN ReturnNew(Err(CancelledError))
    ELSE IF left > 0 THEN Pending
    ELSE LET r == CallFn(fn, args)
         IN  IF r.kind = "return" THEN ReturnNew(Ok(r.val))
             ELSE ReturnNew(Err(r.val))

\* as_async_either(fn)(*args, **kwargs): inner, driven by the event loop. The
\* coroutine stays at `await fn(...)` while fn has suspensions left; a
\* cancellation is thrown in at that await as CancelledError; once fn has
\* settled its value or fault goes through the same try / except.
as_async_either_inner(fn, args, left, cancelled) ==
    LET awaited == IF cancelled THEN Raise(CancelledError) ELSE CallFn(fn, args)
    IN  IF ~cancelled /\ left > 0 THEN Pending
        ELSE IF awaited.kind = "return" THEN ReturnNew(Ok(awaited.val))
        ELSE IF IsException(awaited.val) THEN ReturnNew(Err(awaited.val))
        ELSE Raise(awaited.val)

\* ------------------------------------------------------------------ state
\* heap: the Either instances created so far, in order of creation.
\* born: each instance as the call that created it returned it (a history
\*       of the heap).
\* last: the latest call the caller made and what it observed.
\* task: the as_async_either invocation in flight, if any.
NoArgs == <<None, None>>
Blank ==
    [op |-> "none", kind |-> "none", val |-> None, made |-> 0,
     target |-> 0, other |-> 0, ok_fn |-> "", err_fn |-> "", called |-> {},
     again |-> FALSE, prev_kind |-> "none", prev_val |-> None,
     fn |-> "", args |-> NoArgs, calls |-> 0,
     n |-> 0, left |-> 0, cancelled |-> FALSE]
Idle == [pc |-> "idle", fn |-> "", args |-> NoArgs, n |-> 0, left |-> 0]

Init == heap = <<>> /\ born = <<>> /\ last = Blank /\ task = Idle

\* The caller observes r: the instance r allocated joins the heap and is
\* what the call returned.
Observe(r, rec) ==
    /\ Len(heap) + Len(r.new) <= MaxHeap
    /\ heap' = heap \o r.new
    /\ born' = born \o r.new
    /\ last' = [rec EXCEPT !.kind = r.kind, !.made = Len(r.new),
                           !.val = IF r.new # <<>> THEN Ref(Len(heap) + 1) ELSE r.val]

CallOk(v) ==
    /\ task.pc = "idle"
    /\ Observe(ReturnNew(Ok(v)), [Blank EXCEPT !.op = "Ok", !.args = <<v, None>>])
    /\ UNCHANGED task

CallErr(v) ==
    /\ task.pc = "idle"
    /\ Observe(ReturnNew(Err(v)), [Blank EXCEPT !.op = "Err", !.args = <<v, None>>])
    /\ UNCHANGED task

\* Either(...) and Either[int, str](...), with no arguments, positional ones
\* or keywords.
CtorArgs ==
    {[kw |-> FALSE, ok |-> None, err |-> None, is_ok |-> FALSE],
     [kw |-> FALSE, ok |-> PyInt(10), err |-> None, is_ok |-> TRUE],
     [kw |-> TRUE, ok |-> PyInt(10), err |-> PyStr("10"), is_ok |-> FALSE],
     [kw |-> TRUE, ok |-> PyInt(10), err |-> None, is_ok |-> TRUE],
     [kw |-> TRUE, ok |-> None, err |-> PyStr("10"), is_ok |-> FALSE]}

CallNew(a) ==
    /\ task.pc = "idle"
    /\ Observe(EitherNew(a), [Blank EXCEPT !.op = "Either"])
    /\ UNCHANGED task

CallMatch(i, ok_fn, err_fn) ==
    /\ task.pc = "idle"
    /\ i \in 1..Len(heap)
    /\ LET r == Match(heap[i], ok_fn, err_fn)
           again == /\ last.op = "match" /\ last.target = i
                    /\ last.ok_fn = ok_fn /\ last.err_fn = err_fn
       IN  /\ heap' = [heap EXCEPT ![i] = r.self]
           /\ last' = [Blank EXCEPT !.op = "match", !.kind = r.out.kind,
                                    !.val = r.out.val, !.target = i,
                                    !.ok_fn = ok_fn, !.err_fn = err_fn,
                                    !.called = r.called, !.again = again,
                                    !.prev_kind = IF again THEN last.kind ELSE "none",
                                    !.prev_val = IF again THEN last.val ELSE None]
    /\ UNCHANGED <<born, task>>

CallEq(i, j) ==
    /\ task.pc = "idle"
    /\ i \in 1..Len(heap) /\ j \in 1..Len(heap)
    /\ last' = [Blank EXCEPT !.op = "eq", !.kind = "return",
                             !.val = PyBool(EitherEq(heap[i], heap[j])),
                             !.target = i, !.other = j]
    /\ UNCHANGED <<heap, born, task>>

\* instance.name = v and del instance.name
CallSetattr(i, op, name, v) ==
    /\ task.pc = "idle"
    /\ i \in 1..Len(heap)
    /\ LET r == FrozenSetattr(heap[i], op, name, v)
       IN  /\ heap' = [heap EXCEPT ![i] = r.self]
           /\ last' = [Blank EXCEPT !.op = op, !.kind = r.out.kind,
                                    !.val = r.out.val, !.target = i,
                                    !.fn = name, !.args = <<v, None>>]
    /\ UNCHANGED <<born, task>>

CallAsEither(fn, args) ==
    /\ task.pc = "idle"
    /\ LET r == as_either_inner(fn, args)
       IN  Observe(r.out, [Blank EXCEPT !.op = "as_either", !.fn = fn,
                                        !.args = args, !.calls = r.calls])
    /\ UNCHANGED task

\* One step of the coroutine: it either stays suspended or finishes.
Drive(fn, args, n, left, cancelled) ==
    LET r == as_async_either_inner(fn, args, left, cancelled)
    IN  /\ Observe(r, [Blank EXCEPT !.op = "as_async_either", !.fn = fn,
                                    !.args = args, !.calls = 1, !.n = n,
                                    !.left = left, !.cancelled = cancelled])
        /\ task' = IF r.kind = "pending"
                   THEN [pc |-> "suspended", fn |-> fn, args |-> args,
                         n |-> n, left |-> left]
                   ELSE Idle

\* await as_async_either(fn)(*args) where fn suspends n times before settling
AsyncCall(fn, args, n) ==
    /\ task.pc = "idle"
    /\ Len(heap) < MaxHeap
    /\ Drive(fn, args, n, n, FALSE)

\* the event loop resumes fn after one of its suspensions
AsyncResume ==
    /\ task.pc = "suspended"
    /\ Drive(task.fn, task.args, task.n, task.left - 1, FALSE)

\* task.cancel() while the coroutine is suspended
AsyncCancel ==
    /\ task.pc = "suspended"
    /\ Drive(task.fn, task.args, task.n, task.left, TRUE)

Next ==
    \/ \E v \in Payloads : CallOk(v)
    \/ \E v \in Payloads : CallErr(v)
    \/ \E a \in CtorArgs : CallNew(a)
    \/ \E i \in 1..MaxHeap, f \in Handlers, g \in Handlers : CallMatch(i, f, g)
    \/ \E i \in 1..MaxHeap, j \in 1..MaxHeap : CallEq(i, j)
    \/ \E i \in 1..MaxHeap : \E op \in {"setattr", "delattr"} : \E name \in Fields :
           CallSetattr(i, op, name, PyInt(1))
    \/ \E fn \in Fns : \E args \in ArgsOf(fn) : CallAsEither(fn, args)
    \/ \E fn \in Fns : \E args \in ArgsOf(fn) : \E n \in 0..MaxSuspend :
           AsyncCall(fn, args, n)
    \/ AsyncResume
    \/ AsyncCancel

Spec == Init /\ [][Next]_vars

\* ------------------------------------------------------------- properties
Present(x) == x # None
Newest == heap[Len(heap)]
IsAdapter(op) == op \in {"as_either", "as_async_either"}
Settled == last.kind # "pending" /\ ~last.cancelled

\* C1: round trip. Matching an instance built as Ok(v) with (id, fail)
\* returns v, and one built as Err(e) with (fail, id) returns e, for every
\* payload, None included; fail is never invoked.
C1_RoundTrip ==
    last.op = "match" =>
        LET e == born[last.target]
        IN  /\ (e.is_ok /\ last.ok_fn = "id" /\ last.err_fn = "fail") =>
                   (last.kind = "return" /\ last.val = e.ok /\ "err_fn" \notin last.called)
            /\ (~e.is_ok /\ last.ok_fn = "fail" /\ last.err_fn = "id") =>
                   (last.kind = "return" /\ last.val = e.err /\ "ok_fn" \notin last.called)

\* C2: match on an instance built by the factories (directly or inside an
\* adapter) never raises UnreachableError; it always calls one of the two
\* handlers.
C2_UnreachableNeverRaised ==
    last.op = "match" =>
        /\ ~(last.kind = "raise" /\ last.val.t = "UnreachableError")
        /\ last.called # {}

\* C3: every instance holds exactly one payload, and is_ok is TRUE exactly
\* when that payload is ok.
C3_ExactlyOnePayload ==
    \A i \in 1..Len(heap) :
        /\ Present(heap[i].ok) # Present(heap[i].err)
        /\ heap[i].is_ok = Present(heap[i].ok)

\* C4: direct construction, whatever its arguments, raises
\* PrivateConstructorError with the fixed message and creates no instance;
\* Ok and Err always return a new instance holding their argument.
C4_DirectConstructionRejected ==
    /\ last.op = "Either" =>
           /\ last.kind = "raise"
           /\ last.val.t = "PrivateConstructorError"
           /\ last.val.s = "Use Either.Ok or Either.Err to create an instance."
           /\ last.made = 0
    /\ last.op = "Ok" =>
           /\ last.kind = "return" /\ last.made = 1 /\ last.val = Ref(Len(heap))
           /\ Newest.is_ok /\ Newest.ok = last.args[1]
    /\ last.op = "Err" =>
           /\ last.kind = "return" /\ last.made = 1 /\ last.val = Ref(Len(heap))
           /\ ~Newest.is_ok /\ Newest.err = last.args[1]

C4_Witness ==
    /\ last.op = "Either" /\ last.kind = "raise"
    /\ \E i \in 1..Len(heap) : born[i] = Ok(PyInt(1))

\* C5: two instances are equal exactly when they are of the same variant
\* and their payloads are equal; an Ok and an Err are never equal.
C5_StructuralEquality ==
    last.op = "eq" =>
        LET a == heap[last.target]
            b == heap[last.other]
        IN  (last.val = PyBool(TRUE)) <=>
                \/ a.is_ok /\ b.is_ok /\ PyEq(a.ok, b.ok)
                \/ ~a.is_ok /\ ~b.is_ok /\ PyEq(a.err, b.err)

C5_Witness ==
    /\ last.op = "eq"
    /\ heap[last.target] = Ok(None) /\ heap[last.other] = Err(None)
    /\ last.val = PyBool(FALSE)

\* C6: a call of an as_either wrapper calls fn once; when fn returns v the
\* wrapper returns an instance with is_ok TRUE, ok = v and err None; when fn
\* raises an Exception e it returns one with is_ok FALSE, ok None and err
\* the object e itself; the wrapper does not raise in either case.
C6_AsEitherOutcome ==
    last.op = "as_either" =>
        LET r == CallFn(last.fn, last.args)
        IN  /\ last.calls = 1
            /\ r.kind = "return" =>
                   /\ last.kind = "return" /\ last.val = Ref(Len(heap))
                   /\ Newest = [is_ok |-> TRUE, ok |-> r.val, err |-> None]
            /\ (r.kind = "raise" /\ IsException(r.val)) =>
                   /\ last.kind = "return" /\ last.val = Ref(Len(heap))
                   /\ Newest = [is_ok |-> FALSE, ok |-> None, err |-> r.val]

C6_Witness ==
    /\ last.op = "as_either" /\ last.fn = "divide"
    /\ last.args = <<PyInt(4), PyInt(0)>>
    /\ last.kind = "return" /\ Newest.err = ZeroDivisionError

\* C7 as stated: no instance carries a PrivateConstructorError or an
\* UnreachableError as its err payload.
C7_OwnErrorsNeverCarried ==
    \A i \in 1..Len(heap) : heap[i].err.t \notin EitherErrorTypes

\* C7 as amended: Either(...) raises PrivateConstructorError, and match on
\* an instance without a payload raises UnreachableError, to its immediate
\* caller; an adapter whose wrapped function lets one of them escape
\* captures it like any other Exception and returns Err of that error.
C7_OwnErrorsRaisedThenCaptured ==
    /\ last.op = "Either" =>
           (last.kind = "raise" /\ last.val.t = "PrivateConstructorError")
    /\ (last.op = "match" /\ last.called = {}) =>
           (last.kind = "raise" /\ last.val.t = "UnreachableError")
    /\ (IsAdapter(last.op) /\ Settled) =>
           LET r == CallFn(last.fn, last.args)
           IN  (r.kind = "raise" /\ r.val.t \in EitherErrorTypes) =>
                   (last.kind = "return" /\ Newest = Err(r.val))

C7_Witness ==
    /\ last.op = "as_either" /\ last.fn = "construct"
    /\ last.kind = "return" /\ Newest = Err(PrivateConstructorError)

\* C8: a settled as_async_either call observes what as_either observes for
\* the same function and arguments, and nothing is observed while the
\* wrapped operation still has suspensions left.
C8_AsyncMatchesSync ==
    last.op = "as_async_either" =>
        /\ last.kind = "pending" <=> task.pc = "suspended"
        /\ last.kind = "pending" => (last.made = 0 /\ last.left > 0)
        /\ Settled =>
               LET sync == as_either_inner(last.fn, last.args).out
               IN  /\ last.left = 0
                   /\ last.kind = sync.kind
                   /\ last.made = Len(sync.new)
                   /\ sync.new # <<>> => Newest = sync.new[1]
                   /\ sync.new = <<>> => last.val = sync.val

C8_Witness ==
    /\ last.op = "as_async_either" /\ Settled
    /\ last.n = MaxSuspend /\ last.left = 0
    /\ last.fn = "divide" /\ Newest = Err(ZeroDivisionError)

\* C9: a cancellation delivered while the wrapped operation is suspended
\* leaves the wrapper as CancelledError; the call returns no instance.
C9_CancellationPropagates ==
    (last.op = "as_async_either" /\ last.cancelled) =>
        /\ last.kind = "raise"
        /\ last.val = CancelledError
        /\ last.made = 0
        /\ task.pc = "idle"

C9_Witness ==
    /\ last.op = "as_async_either" /\ last.cancelled
    /\ last.kind = "raise" /\ last.left > 0

\* C10: an instance stays as its factory returned it, whatever is called on
\* it afterwards: assignment and deletion of a field raise, and a repeated
\* match with the same handlers gives the result it gave before.
C10_ImmutableAndIdempotent ==
    /\ heap = born
    /\ last.op \in {"setattr", "delattr"} =>
           (last.kind = "raise" /\ last.val.t = "FrozenInstanceError")
    /\ (last.op = "match" /\ last.again) =>
           (last.kind = last.prev_kind /\ last.val = last.prev_val)

C10_Witness ==
    /\ last.op = "match" /\ last.again
    /\ last.kind = "return" /\ last.val = PyStr("10")

====
